---- MODULE Spec2Model ----
(***************************************************************************)
(* A model of gdrive_videoloader.py.                                       *)
(*                                                                         *)
(* Text is a sequence of atoms.  An atom is one character, except for the  *)
(* lexemes "title", "videoplayback", "data-id" and the percent escapes     *)
(* ("%7C", "%20"), which stand for the character runs of the same          *)
(* spelling.  Python's None is the one-atom text <<"None">>, whose atom    *)
(* belongs to no alphabet.                                                 *)
(***************************************************************************)
EXTENDS Integers, Sequences, FiniteSets, TLC

VARIABLES
    pc,            \* position of the running code
    page_content,  \* get_video_url: the info response text
    video,         \* get_video_url: the playback URL found (or None)
    title,         \* get_video_url: the title found (or None)
    output_file,   \* the -o override (None when not given)
    video_id,      \* the identifier being processed
    filename,      \* download_from_video_id: the output filename
    folder,        \* the folder page: a sequence of fragments
    fetch,         \* outcome of the folder GET
    data_ids,      \* the folder listing
    mode,          \* main: "bulk" for a folder URL, "single" otherwise
    chunk_size,    \* the -c argument
    idx,           \* main: the loop counter over data_ids
    fs,            \* the local filesystem: existing filename -> content
    fs0,           \* fs as download_file found it on entry
    range_hdr,     \* download_file: the Range offset sent (NoRange: no header)
    file_mode,     \* download_file: "wb" or "ab"
    downloaded_size, \* download_file: bytes found on disk
    resp,          \* how the server answered the streaming GET
    status,        \* download_file: response.status_code
    stream,        \* download_file: response bytes not yet iterated
    total_size,    \* download_file: the progress bar's total
    pbar,          \* download_file: the progress bar's position
    report,        \* the last message printed about the current identifier
    writers,       \* history: <<filename, identifier>> pairs written in this run
    events         \* history: the cycles begun and ended in this run

None == <<"None">>

\* Python truthiness of an optional text
Truthy(s) == s # None /\ s # <<>>

\* ------------------------------------------------------------------ text

Last(s) == s[Len(s)]

StartsWith(s, p) == Len(s) >= Len(p) /\ SubSeq(s, 1, Len(p)) = p

Contains(s, a) == \E i \in 1..Len(s) : s[i] = a

\* str.split(sep) for a one-atom separator
RECURSIVE Split(_, _)
Split(s, sep) ==
    IF Contains(s, sep)
    THEN LET i == CHOOSE k \in 1..Len(s) :
                      s[k] = sep /\ \A j \in 1..(k - 1) : s[j] # sep
         IN  <<SubSeq(s, 1, i - 1)>> \o Split(SubSeq(s, i + 1, Len(s)), sep)
    ELSE <<s>>

\* urllib.parse.unquote on one atom: an escape becomes its character
Decode(a) ==
    CASE a = "%7C" -> "|"
      [] a = "%20" -> " "
      [] OTHER     -> a

\* urllib.parse.unquote
Unquote(s) == [i \in 1..Len(s) |-> Decode(s[i])]

\* all texts over alphabet A of length at most n
SeqsUpTo(A, n) == UNION {[1..k -> A] : k \in 0..n}

\* ------------------------------------------------------ get_video_url

TitlePrefix == <<"title", "=">>

\* line 120: unquote(content.split('=')[-1])
TitleOf(content) == Unquote(Last(Split(content, "=")))

\* variant: the part before the first '|' instead of after the last
UrlOfFirstSegment(content) == Head(Split(Unquote(content), "|"))

\* line 122: unquote(content).split("|")[-1]
UrlOf(content) == Last(Split(Unquote(content), "|"))

\* lines 118-124: the scan of the tokens, from token i on
RECURSIVE ScanTokens(_, _, _, _)
ScanTokens(contentList, i, v, t) ==
    IF i > Len(contentList) THEN <<v, t>>
    ELSE LET content == contentList[i]
             isTitle == StartsWith(content, TitlePrefix) /\ ~Truthy(t)
             isVideo == ~isTitle /\ Contains(content, "videoplayback") /\ ~Truthy(v)
             t2 == IF isTitle THEN TitleOf(content) ELSE t
             v2 == IF isVideo THEN UrlOf(content) ELSE v
         IN  IF Truthy(v2) /\ Truthy(t2) THEN <<v2, t2>>
             ELSE ScanTokens(contentList, i + 1, v2, t2)

\* get_video_url: <<video, title>>
GetVideoUrl(content) == ScanTokens(Split(content, "&"), 1, None, None)

\* ---------------------------------------------------- sanitize_filename

\* line 56: the characters of r'<>:"/\\|?*' (the raw text holds two backslashes)
Invalid == <<"<", ">", ":", "\"", "/", "\\", "\\", "|", "?", "*">>

Whitespace == {" ", "\t"}

\* str.replace(ch, '_')
ReplaceChar(name, ch) == [i \in 1..Len(name) |-> IF name[i] = ch THEN "_" ELSE name[i]]

\* lines 57-58: the replacements for Invalid[i], Invalid[i+1], ...
RECURSIVE ReplaceInvalid(_, _)
ReplaceInvalid(name, i) ==
    IF i > Len(Invalid) THEN name
    ELSE ReplaceInvalid(ReplaceChar(name, Invalid[i]), i + 1)

RECURSIVE LStrip(_)
LStrip(s) == IF s # <<>> /\ Head(s) \in Whitespace THEN LStrip(Tail(s)) ELSE s

RECURSIVE RStrip(_)
RStrip(s) ==
    IF s # <<>> /\ Last(s) \in Whitespace THEN RStrip(SubSeq(s, 1, Len(s) - 1)) ELSE s

\* variant: str.rstrip() in place of str.strip()
StripRightOnly(s) == RStrip(s)

\* str.strip()
Strip(s) == LStrip(RStrip(s))

\* sanitize_filename
SanitizeFilename(name) ==
    IF ~Truthy(name) THEN name ELSE Strip(ReplaceInvalid(name, 1))

\* line 72: output_file if output_file else sanitize_filename(title) or video_id
FilenameOf(o, t, id) ==
    IF Truthy(o) THEN o
    ELSE IF Truthy(SanitizeFilename(t)) THEN SanitizeFilename(t) ELSE id

\* ------------------------------------- extract_bulk_data_ids_from_folder

\* line 96: ids shorter than this are skipped
MinIdLen == 5

IsQuote(a) == a \in {"\"", "'"}

IsSpace(a) == a \in Whitespace \cup {"\n"}

\* \s* from position p: the first position at or after p that holds no space
RECURSIVE SkipSpaces(_, _)
SkipSpaces(text, p) ==
    IF p <= Len(text) /\ IsSpace(text[p]) THEN SkipSpaces(text, p + 1) ELSE p

\* [^"']* from position p: the first position at or after p that holds a quote
RECURSIVE SkipValue(_, _)
SkipValue(text, p) ==
    IF p <= Len(text) /\ ~IsQuote(text[p]) THEN SkipValue(text, p + 1) ELSE p

\* line 89: the pattern data-id\s*=\s*["\']([^"\']+)["\'] tried at position p;
\* <<matched, the group, the position after the match>>
MatchAt(text, p) ==
    LET q1 == SkipSpaces(text, p + 1)
        q2 == SkipSpaces(text, q1 + 1)
        q3 == SkipValue(text, q2 + 1)
        ok == /\ text[p] = "data-id"
              /\ q1 <= Len(text) /\ text[q1] = "="
              /\ q2 <= Len(text) /\ IsQuote(text[q2])
              /\ q3 > q2 + 1
              /\ q3 <= Len(text)
    IN  IF ok THEN <<TRUE, SubSeq(text, q2 + 1, q3 - 1), q3 + 1>>
        ELSE <<FALSE, <<>>, p + 1>>

\* line 90: re.findall(pattern, text), from position p on
RECURSIVE FindAll(_, _)
FindAll(text, p) ==
    IF p > Len(text) THEN <<>>
    ELSE LET m == MatchAt(text, p)
         IN  IF m[1] THEN <<m[2]>> \o FindAll(text, m[3]) ELSE FindAll(text, m[3])

\* variant: the loop without the test on seen
RECURSIVE CollectIdsNoSeen(_, _, _, _)
CollectIdsNoSeen(matches, i, ids, seen) ==
    IF i > Len(matches) THEN ids
    ELSE IF Len(matches[i]) < MinIdLen THEN CollectIdsNoSeen(matches, i + 1, ids, seen)
    ELSE CollectIdsNoSeen(matches, i + 1, Append(ids, matches[i]), seen)

\* lines 92-100: the loop over the matches, from match i on
RECURSIVE CollectIds(_, _, _, _)
CollectIds(matches, i, ids, seen) ==
    IF i > Len(matches) THEN ids
    ELSE IF Len(matches[i]) < MinIdLen THEN CollectIds(matches, i + 1, ids, seen)
    ELSE IF matches[i] \notin seen
         THEN CollectIds(matches, i + 1, Append(ids, matches[i]), seen \cup {matches[i]})
         ELSE CollectIds(matches, i + 1, ids, seen)

\* the folder GET: a response, or a RequestException (raise_for_status included)
FetchOutcomes == {"ok", "HTTPError", "ConnectionError"}

\* extract_bulk_data_ids_from_folder
ExtractBulkDataIds(outcome, text) ==
    IF outcome = "ok" THEN CollectIds(FindAll(text, 1), 1, <<>>, {}) ELSE <<>>

\* ------------------------------------------------------------ the program

RemoteLen == 2

NoRange == -1

Id1 == <<"a", "b", "c", "d", "e">>
Id2 == <<"a", "b", "c", "d", "f">>
Id3 == <<"a", "b", "c", "d", "e", "f">>
ShortId == <<"a", "b">>

\* a data-id attribute as it stands in a page, in one of two spellings
Attr(v, style) ==
    [attr |-> TRUE, value |-> v,
     text |-> IF style = 1 THEN <<"data-id", "=", "\"">> \o v \o <<"\"">>
              ELSE <<"data-id", " ", "=", " ", "'">> \o v \o <<"'">>]

Junk(t) == [attr |-> FALSE, value |-> <<>>, text |-> t]

\* the text of a page given as fragments
RECURSIVE Body(_)
Body(f) == IF f = <<>> THEN <<>> ELSE Head(f).text \o Body(Tail(f))

SampleFolders ==
    { <<Junk(<<"x">>)>>,
      <<Attr(Id1, 1), Attr(ShortId, 1), Attr(Id2, 2), Attr(Id1, 2)>>,
      <<Attr(Id1, 1), Attr(Id2, 1), Attr(ShortId, 2), Attr(Id3, 2)>> }

IdChar(a) == a \in {"a", "b", "c", "d", "e", "f", "_", "-"}

RECURSIVE IdRun(_, _)
IdRun(s, p) ==
    IF p <= Len(s) /\ IdChar(s[p]) THEN <<s[p]>> \o IdRun(s, p + 1) ELSE <<>>

\* extract_drive_id: re.search(r'/file/d/([a-zA-Z0-9_-]+)')
ExtractDriveId(s) ==
    LET hits == {p \in 1..Len(s) : s[p] = "/file/d/" /\ IdRun(s, p + 1) # <<>>}
    IN  IF hits = {} THEN s
        ELSE IdRun(s, (CHOOSE p \in hits : \A q \in hits : p <= q) + 1)

FolderUrl == <<"https://drive", "/folders/", "x">>

MainInputs == {FolderUrl, Id1, <<"https://drive", "/file/d/">> \o Id2 \o <<"/", "view">>}

Overrides == {None, <<"o">>}

TitleFor(id) ==
    CASE id = Id1 -> <<"a", ":", "b">>
      [] id = Id2 -> <<"a", "/", "b">>
      [] OTHER    -> <<"t">>

UrlFor(id) == <<"videoplayback", "?">> \o id

\* what the info endpoint may answer for an identifier
InfoPages(id) ==
    { <<"title", "=">> \o TitleFor(id) \o <<"&", "x", "%7C">> \o UrlFor(id),
      <<"title", "=">> \o TitleFor(id) \o <<"&", "x">>,
      <<"x", "|">> \o UrlFor(id) }

\* the bytes of the remote resource behind a playback URL, each tagged with
\* the identifier it belongs to and its position
RemoteOf(url) == [i \in 1..RemoteLen |-> <<SubSeq(url, 3, Len(url)), i>>]

\* what the media server may answer to the streaming GET with Range offset h
Responses(url, h) ==
    LET R == RemoteOf(url)
    IN  {[kind |-> "exception", status |-> 0, body |-> <<>>],
         [kind |-> "refuse", status |-> 403, body |-> <<>>],
         [kind |-> "full", status |-> 200, body |-> R]}
        \cup (IF h = NoRange THEN {}
              ELSE IF h < Len(R)
              THEN {[kind |-> "range", status |-> 206, body |-> SubSeq(R, h + 1, Len(R))]}
              ELSE {[kind |-> "range", status |-> 416, body |-> <<>>],
                    [kind |-> "range", status |-> 206, body |-> <<>>]})

Exists(fsys, name) == name \in DOMAIN fsys

SizeOf(fsys, name) == IF Exists(fsys, name) THEN Len(fsys[name]) ELSE 0

WriteFile(fsys, name, content) ==
    [f \in DOMAIN fsys \cup {name} |-> IF f = name THEN content ELSE fsys[f]]

\* open(filename, file_mode)
OpenFile(fsys, name, m) ==
    IF m = "ab" /\ Exists(fsys, name) THEN fsys ELSE WriteFile(fsys, name, <<>>)

\* variant: resuming only from a non-empty file
ResumesIfNonEmpty(fsys, name) == Exists(fsys, name) /\ Len(fsys[name]) > 0

\* line 137: whether download_file resumes
Resumes(fsys, name) == Exists(fsys, name)

\* variant: an offset one byte short of the size on disk
RangeOffsetLastByte(fsys, name) ==
    IF Resumes(fsys, name) /\ SizeOf(fsys, name) > 0 THEN SizeOf(fsys, name) - 1
    ELSE IF Resumes(fsys, name) THEN 0 ELSE NoRange

\* lines 138-139: the offset of the Range header, NoRange when none is sent
RangeOffset(fsys, name) == IF Resumes(fsys, name) THEN SizeOf(fsys, name) ELSE NoRange

\* variant: the file always opened with 'wb'
FileModeAlwaysWrite(fsys, name) == "wb"

\* lines 134, 140: the mode the file will be opened in
FileMode(fsys, name) == IF Resumes(fsys, name) THEN "ab" ELSE "wb"

\* variant: the file opened before the status is looked at
FsOpenedAlways(fsys, name, m, st) == OpenFile(fsys, name, m)

\* lines 148-150: the filesystem once the status is known
FsAfterResponse(fsys, name, m, st) ==
    IF st \in {200, 206} THEN OpenFile(fsys, name, m) ELSE fsys

\* variant: a handler that leaves the loop
AfterExceptionAbort(m) == "done"

\* lines 176-178 and 187-188: where main goes once the handler has printed
AfterException(m) == "id_done"

Min(a, b) == IF a < b THEN a ELSE b

dlVars == <<range_hdr, file_mode, downloaded_size, resp, status, stream, total_size, pbar>>
mainVars == <<mode, chunk_size, idx, fs, fs0, report, writers, events>>
pureVars == <<page_content, video, title, output_file, video_id, filename, folder, fetch, data_ids>>
vars == <<pc, pureVars, mainVars, dlVars>>

DlIdle ==
    /\ range_hdr = NoRange /\ file_mode = "wb" /\ downloaded_size = 0
    /\ resp = "none" /\ status = 0 /\ stream = <<>> /\ total_size = 0 /\ pbar = 0

DlReset ==
    /\ range_hdr' = NoRange /\ file_mode' = "wb" /\ downloaded_size' = 0
    /\ resp' = "none" /\ status' = 0 /\ stream' = <<>> /\ total_size' = 0 /\ pbar' = 0

PureIdle ==
    /\ page_content = <<>> /\ video = None /\ title = None /\ output_file = None
    /\ video_id = <<>> /\ filename = <<>> /\ folder = <<>> /\ fetch = "ok"
    /\ data_ids = <<>>

MainIdle ==
    /\ mode = "single" /\ chunk_size = 1 /\ idx = 0
    /\ report = "none" /\ writers = {} /\ events = <<>>

\* the names the program can write to
FileNames == {<<"o">>, <<"a", "_", "b">>, <<"t">>, Id1, Id2, Id3}

\* the local directory before the program starts: empty, or holding one file
\* that an earlier, possibly interrupted, download left behind
InitialFilesystems ==
    {<<>>} \cup
    {[f \in {name} |-> SubSeq(RemoteOf(UrlFor(id)), 1, n)] :
        name \in FileNames, id \in {Id1, Id2, Id3}, n \in 0..RemoteLen}

Init ==
    /\ pc = "start" /\ PureIdle /\ MainIdle /\ DlIdle
    /\ fs \in InitialFilesystems /\ fs0 = fs

\* lines 160-166, 181, 199-200: the program starts with its arguments
MainStart ==
    /\ pc = "start"
    /\ \E inp \in MainInputs, o \in Overrides, c \in 1..RemoteLen :
         /\ output_file' = o
         /\ chunk_size' = c
         /\ IF Contains(inp, "/folders/")
            THEN mode' = "bulk" /\ video_id' = <<>> /\ pc' = "list"
            ELSE mode' = "single" /\ video_id' = ExtractDriveId(inp) /\ pc' = "fetch_info"
    /\ idx' = 0 /\ data_ids' = <<>> /\ writers' = {} /\ events' = <<>>
    /\ report' = "none" /\ fs0' = fs
    /\ page_content' = <<>> /\ video' = None /\ title' = None /\ filename' = <<>>
    /\ UNCHANGED <<fs, folder, fetch, dlVars>>

\* lines 166-171: the folder is listed
ListFolder ==
    /\ pc = "list"
    /\ \E f \in SampleFolders, o \in FetchOutcomes :
         /\ folder' = f /\ fetch' = o
         /\ data_ids' = ExtractBulkDataIds(o, Body(f))
    /\ IF data_ids' = <<>>
       THEN pc' = "done" /\ report' = "no_ids" /\ idx' = 0 /\ video_id' = <<>>
       ELSE pc' = "fetch_info" /\ report' = "none" /\ idx' = 1 /\ video_id' = data_ids'[1]
    /\ UNCHANGED <<page_content, video, title, output_file, filename, mode,
                   chunk_size, fs, fs0, writers, events, dlVars>>

\* lines 63-76: download_from_video_id up to the call of download_file
FetchInfo ==
    /\ pc = "fetch_info"
    /\ events' = Append(events, <<"begin", video_id, "none">>)
    /\ \/ /\ pc' = "except" /\ report' = "none"
          /\ UNCHANGED <<page_content, video, title, filename>>
       \/ \E page \in InfoPages(video_id) :
            LET vt == GetVideoUrl(page)
            IN  /\ page_content' = page
                /\ video' = vt[1] /\ title' = vt[2]
                /\ filename' = FilenameOf(output_file, vt[2], video_id)
                /\ IF Truthy(vt[1]) THEN pc' = "dl_start" /\ report' = "none"
                   ELSE pc' = "id_done" /\ report' = "unable"
    /\ UNCHANGED <<output_file, video_id, folder, fetch, data_ids, mode,
                   chunk_size, idx, fs, fs0, writers, dlVars>>

\* lines 133-140: download_file decides whether to resume
DlStart ==
    /\ pc = "dl_start"
    /\ fs0' = fs
    /\ downloaded_size' = IF Resumes(fs, filename) THEN SizeOf(fs, filename) ELSE 0
    /\ range_hdr' = RangeOffset(fs, filename)
    /\ file_mode' = FileMode(fs, filename)
    /\ pc' = "dl_request"
    /\ UNCHANGED <<pureVars, mode, chunk_size, idx, fs, report, writers, events,
                   resp, status, stream, total_size, pbar>>

\* lines 147-151, 157-158: the streaming GET and what follows its status;
\* cl tells whether the response carries a content-length header (it only
\* matters on a 200 or 206 answer)
DlRequest ==
    /\ pc = "dl_request"
    /\ \E r \in Responses(video, range_hdr), cl \in BOOLEAN :
         /\ resp' = r.kind
         /\ status' = r.status
         /\ IF r.kind = "exception"
            THEN /\ pc' = "except" /\ report' = "none"
                 /\ cl
                 /\ UNCHANGED <<fs, stream, total_size, pbar>>
            ELSE /\ fs' = FsAfterResponse(fs, filename, file_mode, r.status)
                 /\ IF r.status \in {200, 206}
                    THEN /\ stream' = r.body
                         /\ total_size' = (IF cl THEN Len(r.body) ELSE 0) + downloaded_size
                         /\ pbar' = downloaded_size
                         /\ pc' = "dl_write" /\ report' = "none"
                    ELSE /\ cl
                         /\ pc' = "id_done" /\ report' = "status_error"
                         /\ UNCHANGED <<stream, total_size, pbar>>
    /\ UNCHANGED <<pureVars, mode, chunk_size, idx, fs0, writers, events,
                   range_hdr, file_mode, downloaded_size>>

\* lines 152-155: one chunk is received and written
DlWrite ==
    /\ pc = "dl_write" /\ stream # <<>>
    /\ LET n == Min(chunk_size, Len(stream))
       IN  /\ fs' = WriteFile(fs, filename, fs[filename] \o SubSeq(stream, 1, n))
           /\ stream' = SubSeq(stream, n + 1, Len(stream))
           /\ pbar' = pbar + n
    /\ writers' = writers \cup {<<filename, video_id>>}
    /\ UNCHANGED <<pc, pureVars, mode, chunk_size, idx, fs0, report, events,
                   range_hdr, file_mode, downloaded_size, resp, status, total_size>>

\* line 152: the connection breaks while the body is streamed; iter_content
\* raises a RequestException and the with statement closes the file
DlStreamError ==
    /\ pc = "dl_write" /\ stream # <<>>
    /\ pc' = "except"
    /\ UNCHANGED <<pureVars, mainVars, dlVars>>

\* line 156: the body is exhausted
DlFinish ==
    /\ pc = "dl_write" /\ stream = <<>>
    /\ pc' = "id_done" /\ report' = "downloaded"
    /\ UNCHANGED <<pureVars, mode, chunk_size, idx, fs, fs0, writers, events, dlVars>>

\* lines 176-177, 187-188: main catches the RequestException and prints it
ExceptRequest ==
    /\ pc = "except"
    /\ report' = "fetch_error"
    /\ pc' = AfterException(mode)
    /\ UNCHANGED <<pureVars, mode, chunk_size, idx, fs, fs0, writers, events, dlVars>>

\* lines 171, 178, 188: the cycle of one identifier is over
NextId ==
    /\ pc = "id_done"
    /\ events' = Append(events, <<"end", video_id, report>>)
    /\ IF mode = "bulk" /\ idx < Len(data_ids)
       THEN idx' = idx + 1 /\ video_id' = data_ids[idx + 1] /\ pc' = "fetch_info"
       ELSE pc' = "done" /\ UNCHANGED <<idx, video_id>>
    /\ DlReset
    /\ page_content' = <<>> /\ video' = None /\ title' = None /\ filename' = <<>>
    /\ report' = "none" /\ fs0' = fs
    /\ UNCHANGED <<output_file, folder, fetch, data_ids, mode, chunk_size, fs, writers>>

Next ==
    \/ MainStart \/ ListFolder \/ FetchInfo \/ DlStart \/ DlRequest \/ DlWrite
    \/ DlStreamError \/ DlFinish \/ ExceptRequest \/ NextId

Spec == Init /\ [][Next]_vars

\* ------------------------------------ the functions on enumerated inputs

MaxPageLen == 5
MaxTitleLen == 3
MaxFragments == 3

PageAtoms == {"title", "videoplayback", "=", "&", "|", "%7C", "a"}

\* a=1&title=My%20Video&foo=bar&xyz|https://host/videoplayback?id=2
ExamplePage ==
    <<"a", "=", "1", "&", "title", "=", "My", "%20", "Video", "&", "foo", "=", "bar",
      "&", "xyz", "|", "https://host/", "videoplayback", "?id", "=", "2">>

Pages == SeqsUpTo(PageAtoms, MaxPageLen) \cup {ExamplePage}

InitUrl ==
    /\ pc = "get_video_url" /\ page_content \in Pages
    /\ video = None /\ title = None /\ output_file = None /\ video_id = <<>>
    /\ filename = <<>> /\ folder = <<>> /\ fetch = "ok" /\ data_ids = <<>>
    /\ MainIdle /\ DlIdle /\ fs = <<>> /\ fs0 = <<>>

\* lines 112-129: get_video_url is applied to the response text
ParsePage ==
    /\ pc = "get_video_url"
    /\ video' = GetVideoUrl(page_content)[1]
    /\ title' = GetVideoUrl(page_content)[2]
    /\ pc' = "parsed"
    /\ UNCHANGED <<page_content, output_file, video_id, filename, folder, fetch,
                   data_ids, mainVars, dlVars>>

SpecUrl == InitUrl /\ [][ParsePage]_vars

NameAtoms == {"<", ">", ":", "\"", "/", "\\", "|", "?", "*", "a", " ", "\t"}

\* My:Video/Name?
ExampleTitle == <<"My", ":", "Video", "/", "Name", "?">>

Titles == SeqsUpTo(NameAtoms, MaxTitleLen) \cup {None, ExampleTitle}

InitName ==
    /\ pc = "derive"
    /\ output_file \in {None, <<>>, <<"o">>}
    /\ title \in Titles
    /\ video_id = Id1
    /\ page_content = <<>> /\ video = None
    /\ filename = <<>> /\ folder = <<>> /\ fetch = "ok" /\ data_ids = <<>>
    /\ MainIdle /\ DlIdle /\ fs = <<>> /\ fs0 = <<>>

\* line 72: the output filename is derived
DeriveFilename ==
    /\ pc = "derive"
    /\ filename' = FilenameOf(output_file, title, video_id)
    /\ pc' = "derived"
    /\ UNCHANGED <<page_content, video, title, output_file, video_id, folder, fetch,
                   data_ids, mainVars, dlVars>>

SpecName == InitName /\ [][DeriveFilename]_vars

IdValues == {ShortId, <<"a", "b", "c", "d">>, Id1, Id2, Id3}

Fragments ==
    {Attr(v, st) : v \in IdValues, st \in {1, 2}}
    \cup {Junk(<<"x">>), Junk(<<"\"">>), Junk(<<"data-id">>)}

InitFolder ==
    /\ pc = "list_folder"
    /\ folder \in SeqsUpTo(Fragments, MaxFragments)
    /\ fetch \in FetchOutcomes
    /\ page_content = <<>> /\ video = None /\ title = None /\ output_file = None
    /\ video_id = <<>> /\ filename = <<>> /\ data_ids = <<>>
    /\ MainIdle /\ DlIdle /\ fs = <<>> /\ fs0 = <<>>

\* lines 78-110: extract_bulk_data_ids_from_folder is applied to the page
ExtractIds ==
    /\ pc = "list_folder"
    /\ data_ids' = ExtractBulkDataIds(fetch, Body(folder))
    /\ pc' = "listed"
    /\ UNCHANGED <<page_content, video, title, output_file, video_id, filename, folder,
                   fetch, mainVars, dlVars>>

SpecFolder == InitFolder /\ [][ExtractIds]_vars

\* ------------------------------------------------------------- the claims

\* the part of s after its last atom a (all of s when a does not occur)
AfterLast(s, a) ==
    LET at == {i \in 1..Len(s) : s[i] = a}
    IN  IF at = {} THEN s
        ELSE SubSeq(s, (CHOOSE i \in at : \A j \in at : j <= i) + 1, Len(s))

Tokens == Split(page_content, "&")

FirstOf(S) == CHOOSE i \in S : \A j \in S : i <= j

TitleTokens == {i \in 1..Len(Tokens) : StartsWith(Tokens[i], TitlePrefix)}

VideoTokens == {i \in 1..Len(Tokens) : Contains(Tokens[i], "videoplayback")}

\* C5: the title returned by get_video_url is the percent-decoding of what
\* follows the 'title=' prefix of the first token starting with 'title=', and
\* it is absent exactly when no token starts with 'title='.
TitleIsRemainderOfFirstTitleToken ==
    pc = "parsed" =>
        title = IF TitleTokens = {} THEN None
                ELSE LET t == Tokens[FirstOf(TitleTokens)]
                     IN  Unquote(SubSeq(t, Len(TitlePrefix) + 1, Len(t)))

\* C6 as stated: the URL returned by get_video_url comes from the first token
\* containing 'videoplayback' (decoded, after its last '|'), and is absent
\* exactly when no token contains 'videoplayback'.
UrlFromFirstVideoplaybackToken ==
    pc = "parsed" =>
        video = IF VideoTokens = {} THEN None
                ELSE AfterLast(Unquote(Tokens[FirstOf(VideoTokens)]), "|")

\* token i is consumed as the title: it starts with 'title=' and every
\* 'title=' token before it gave an empty title
TakenAsTitle(i) ==
    /\ i \in TitleTokens
    /\ \A j \in TitleTokens : j < i => Last(Tokens[j]) = "="

UrlCandidates == {i \in VideoTokens : ~TakenAsTitle(i)}

UrlSegment(i) == AfterLast(Unquote(Tokens[i]), "|")

\* C6 amended: the URL comes from the first token that contains
\* 'videoplayback', is not consumed as the title and has a non-empty decoded
\* part after its last '|'; it is that part.  It is the empty text when such
\* tokens exist but all give an empty part, and None exactly when every token
\* containing 'videoplayback' is consumed as the title or none contains it.
UrlFromFirstUsableToken ==
    pc = "parsed" =>
        LET usable == {i \in UrlCandidates : UrlSegment(i) # <<>>}
        IN  video = IF usable # {} THEN UrlSegment(FirstOf(usable))
                    ELSE IF UrlCandidates # {} THEN <<>>
                    ELSE None

\* C6 witness: the first token containing 'videoplayback' became the title
\* and the URL was taken from a later token
UrlTakenFromLaterToken ==
    /\ pc = "parsed"
    /\ VideoTokens # {} /\ TakenAsTitle(FirstOf(VideoTokens))
    /\ Truthy(video) /\ Truthy(title)
    /\ \E i \in UrlCandidates : i > FirstOf(VideoTokens) /\ video = UrlSegment(i)

InvalidChars == {"<", ">", ":", "\"", "/", "\\", "|", "?", "*"}

Substituted(t) == [i \in 1..Len(t) |-> IF t[i] \in InvalidChars THEN "_" ELSE t[i]]

Trimmed(t) ==
    LET solid == {i \in 1..Len(t) : t[i] \notin {" ", "\t"}}
    IN  IF solid = {} THEN <<>>
        ELSE SubSeq(t, FirstOf(solid), CHOOSE i \in solid : \A j \in solid : j <= i)

\* C4: the filename is the override when one is given (a non-empty one);
\* otherwise the title with each of < > : " / \ | ? * replaced by underscore
\* and then trimmed; and the identifier when the title is absent or
\* sanitizes to the empty text.  'My:Video/Name?' gives 'My_Video_Name_'.
FilenameAsDerived ==
    pc = "derived" =>
        /\ filename =
              IF output_file # None /\ output_file # <<>> THEN output_file
              ELSE IF title # None /\ Trimmed(Substituted(title)) # <<>>
                   THEN Trimmed(Substituted(title))
                   ELSE video_id
        /\ (output_file = None /\ title = ExampleTitle) =>
              filename = <<"My", "_", "Video", "_", "Name", "_">>

\* C4 witness: a title with invalid characters and surrounding whitespace
\* was sanitized into the filename
FilenameFromSanitizedTitle ==
    /\ pc = "derived" /\ output_file = None
    /\ title = <<" ", "/", "a">>
    /\ filename = <<"_", "a">>

AttrValues == {folder[i].value : i \in {k \in 1..Len(folder) : folder[k].attr}}

FirstAttr(v) == FirstOf({k \in 1..Len(folder) : folder[k].attr /\ folder[k].value = v})

\* C7: on a fetched page the listing holds exactly the data-id values of
\* length >= 5 of the page, each once, in the order of their first
\* occurrence; on a transport failure it is empty.
ListingAsClaimed ==
    pc = "listed" =>
        IF fetch # "ok" THEN data_ids = <<>>
        ELSE /\ \A i, j \in 1..Len(data_ids) : i # j => data_ids[i] # data_ids[j]
             /\ {data_ids[i] : i \in 1..Len(data_ids)} = {v \in AttrValues : Len(v) >= 5}
             /\ \A i, j \in 1..Len(data_ids) :
                    i < j => FirstAttr(data_ids[i]) < FirstAttr(data_ids[j])

\* C7 witness: a page with a repeated identifier around another one
ListingDeduplicated ==
    /\ pc = "listed" /\ fetch = "ok"
    /\ Len(folder) = 3 /\ folder[1].attr /\ folder[3].attr
    /\ folder[1].value = folder[3].value
    /\ Len(data_ids) = 2

IsPrefix(a, b) == Len(a) <= Len(b) /\ SubSeq(b, 1, Len(a)) = a

\* download_file has decided about resuming and has not yet returned to main's loop
Downloading == pc \in {"dl_request", "dl_write"} \/ resp # "none"

\* C1: when the local file holds the first N bytes of the remote resource,
\* N < T, and the server honours the range request, a download_file call that
\* runs to completion has asked for bytes N- and leaves the file equal to the
\* remote resource, of size T.
ResumeCompletesFile ==
    ( /\ pc = "id_done" /\ report = "downloaded" /\ resp = "range"
      /\ Exists(fs0, filename)
      /\ IsPrefix(fs0[filename], RemoteOf(video))
      /\ Len(fs0[filename]) < Len(RemoteOf(video)) )
    => /\ range_hdr = Len(fs0[filename])
       /\ Len(fs[filename]) = Len(RemoteOf(video))
       /\ fs[filename] = RemoteOf(video)

\* C1 witness: a file holding a proper, non-empty prefix was completed
ResumedFromPartialFile ==
    /\ pc = "id_done" /\ report = "downloaded" /\ resp = "range"
    /\ Exists(fs0, filename)
    /\ fs0[filename] = SubSeq(RemoteOf(video), 1, 1)
    /\ range_hdr = 1
    /\ fs[filename] = RemoteOf(video)

\* C2: when the streaming GET answers with a status other than 200 or 206,
\* download_file reports the error and returns normally, and the file is as
\* it was before the call (not created, not truncated, not appended to).
ErrorStatusLeavesFile ==
    (resp \notin {"none", "exception"} /\ status \notin {200, 206})
    => /\ pc = "id_done"
       /\ report = "status_error"
       /\ fs = fs0

\* C2 witness: an error status for a file that did not exist
ErrorStatusOnAbsentFile ==
    /\ pc = "id_done" /\ report = "status_error" /\ status = 403
    /\ ~Exists(fs0, filename) /\ ~Exists(fs, filename)

\* C3: in bulk mode the cycles of the listed identifiers are begun and ended
\* one after the other in listing order, each once, whatever errors occur,
\* and the run ends with as many attempts as the listing has identifiers.
BulkCyclesInOrder ==
    mode = "bulk" =>
        /\ Len(events) <= 2 * Len(data_ids)
        /\ \A k \in 1..Len(events) :
              /\ events[k][1] = (IF k % 2 = 1 THEN "begin" ELSE "end")
              /\ events[k][2] = data_ids[(k + 1) \div 2]
        /\ pc = "done" => Len(events) = 2 * Len(data_ids)

\* C3 witness: three identifiers, the first failed at the info fetch, the
\* second had its download break off, the third was downloaded
BulkContinuedAfterErrors ==
    /\ mode = "bulk" /\ pc = "done" /\ Len(data_ids) = 3
    /\ Len(events) = 6
    /\ events[2][3] = "fetch_error" /\ events[4][3] = "fetch_error"
    /\ events[6][3] = "downloaded"
    /\ Exists(fs, <<"a", "_", "b">>)

\* C8: when the local file already equals the remote resource, download_file
\* asks for bytes T-, and on a server that honours ranges (an empty success
\* response, or 416) the file stays as it was; with the empty success
\* response the call ends as a success.
CompleteFileUntouched ==
    ( /\ Downloading
      /\ Exists(fs0, filename)
      /\ fs0[filename] = RemoteOf(video) )
    => /\ range_hdr = Len(RemoteOf(video))
       /\ resp = "range" => fs = fs0
       /\ (resp = "range" /\ status \in {200, 206}) =>
             /\ stream = <<>>
             /\ pc \in {"dl_write", "id_done"}
             /\ pc = "id_done" => report = "downloaded"

\* C8 witness: the empty success response on a complete file
CompleteFileDownloadedAgain ==
    /\ pc = "id_done" /\ report = "downloaded" /\ resp = "range" /\ status = 206
    /\ Exists(fs0, filename) /\ fs0[filename] = RemoteOf(video)
    /\ fs = fs0

\* C9: download_file for an identifier never resumes from (sends a Range
\* offset counting, or appends to) bytes that another identifier of the same
\* run wrote to the output file.
NoResumeAcrossIdentifiers ==
    (Downloading /\ range_hdr > 0) =>
        \A w \in writers : w[1] = filename => w[2] = video_id

\* C10 as stated: a Range header is sent and the file opened for append if
\* and only if the existing size is > 0; a file absent or of size 0 gets no
\* Range header and a fresh write.
RangeIffNonEmpty ==
    Downloading =>
        IF SizeOf(fs0, filename) > 0
        THEN range_hdr = SizeOf(fs0, filename) /\ file_mode = "ab"
        ELSE range_hdr = NoRange /\ file_mode = "wb"

\* C10 amended: a Range header 'bytes=<existing size>-' is sent and the file
\* opened for append if and only if the file exists, whatever its size (0
\* included); only an absent file gets no Range header and a fresh write.
RangeIffFileExists ==
    Downloading =>
        /\ IF Exists(fs0, filename)
           THEN range_hdr = Len(fs0[filename]) /\ file_mode = "ab"
           ELSE range_hdr = NoRange /\ file_mode = "wb"
        /\ pc = "dl_write" =>
              /\ Exists(fs, filename)
              /\ Exists(fs0, filename) => IsPrefix(fs0[filename], fs[filename])

\* C10 witness: an existing empty file is resumed from offset 0
EmptyFileResumed ==
    /\ pc = "dl_write" /\ Exists(fs0, filename) /\ fs0[filename] = <<>>
    /\ range_hdr = 0 /\ file_mode = "ab"

====
